---- MODULE Spec2Model ----
(***************************************************************************)
(* Model of the schema Processor of eventnative (schema/processor.go):     *)
(* the per-object pipeline processObject, the table-name extraction        *)
(* function built by NewProcessor, the three entry points ProcessFact,     *)
(* ProcessObjects and ProcessFilePayload, and the destination typing       *)
(* ApplyDBTyping / ApplyDBTypingToObject.                                  *)
(*                                                                         *)
(* Go maps are mutable and shared by reference, so records live in a heap  *)
(* (address -> map) and the pipeline holds addresses.  Strings that the    *)
(* code edits (table names) are sequences of characters.                   *)
(*                                                                         *)
(* Spec runs one call at a time, SpecDB the destination typing, SpecPar    *)
(* two calls on the same Processor with their steps interleaved.           *)
(***************************************************************************)
EXTENDS Integers, Sequences, FiniteSets, TLC

(***************************************************************************)
(* Bounds of the model.                                                    *)
(***************************************************************************)
\* longest batch handed to ProcessObjects
MaxObjects == 2
\* most lines in a payload handed to ProcessFilePayload
MaxLines == 2
\* most records in a ProcessedFile handed to ApplyDBTyping
MaxBuffered == 2

(***************************************************************************)
(* Strings as character sequences.                                         *)
(***************************************************************************)
Chars(s) ==
  CASE s = "" -> << >>
    [] s = "Ab c" -> <<"A", "b", " ", "c">>
    [] s = "7" -> <<"7">>
    [] s = "yesterday" -> <<"y", "d">>
    [] s = "id1" -> <<"i", "1">>
    [] s = "gen" -> <<"g">>
    [] s = "events_" -> <<"e", "v", "_">>
    [] s = "E " -> <<"E", " ">>
    [] s = "x" -> <<"x">>
    \* a valid timestamp in timestamp.Layout, abbreviated
    [] s = "2020-05-01T10:00:00.000000Z" -> <<"2", "0", "T", "1", "0", "Z">>
    \* Go's default rendering of a time.Time, abbreviated: it has spaces and capitals
    [] s = "2020-05-01 10:00:00 +0000 UTC" -> <<"2", "0", " ", "1", "0", " ", "U", "T", "C">>

\* the text/template placeholder of a missing map key
NoValue == <<"<", "n", "o", " ", "v", "a", "l", "u", "e", ">">>
NullText == <<"n", "u", "l", "l">>

IsPrefix(p, s) == Len(p) <= Len(s) /\ SubSeq(s, 1, Len(p)) = p

\* strings.ReplaceAll for a non-empty old: leftmost, non-overlapping
RECURSIVE ReplaceAll(_, _, _)
ReplaceAll(s, old, new) ==
  IF s = << >> THEN << >>
  ELSE IF IsPrefix(old, s)
       THEN new \o ReplaceAll(SubSeq(s, Len(old) + 1, Len(s)), old, new)
       ELSE <<Head(s)>> \o ReplaceAll(Tail(s), old, new)

LowerChar(c) ==
  CASE c = "A" -> "a" [] c = "E" -> "e" [] c = "U" -> "u"
    [] c = "T" -> "t" [] c = "C" -> "c" [] c = "Z" -> "z"
    [] OTHER -> c

UpperChars == {"A", "E", "U", "T", "C", "Z"}

\* strings.ToLower
ToLower(s) == [i \in 1..Len(s) |-> LowerChar(s[i])]

Contains(s, sub) == \E i \in 0..(Len(s) - Len(sub)) : SubSeq(s, i + 1, i + Len(sub)) = sub

(***************************************************************************)
(* Values of a record.  k is the Go dynamic type of the value, s its       *)
(* text, a the heap address of a nested map (k = "map").                   *)
(***************************************************************************)
Str(s) == [k |-> "string", s |-> s, a |-> ""]
\* json.Number, as the JSON decoder of the parse function produces it
Num(s) == [k |-> "number", s |-> s, a |-> ""]
Int64(s) == [k |-> "int", s |-> s, a |-> ""]
\* time.Time
Time(s) == [k |-> "time", s |-> s, a |-> ""]
\* a value the typing package knows no DataType for
OtherV == [k |-> "other", s |-> "", a |-> ""]
\* a value the Flattener cannot flatten
BadV == [k |-> "bad", s |-> "", a |-> ""]
Ref(addr) == [k |-> "map", s |-> "", a |-> addr]

\* map[string]interface{} as a function; Put is m[k] = v
EmptyMap == [x \in {} |-> OtherV]
Put(m, k, v) == [x \in DOMAIN m \cup {k} |-> IF x = k THEN v ELSE m[x]]

\* errors are records: the stage that failed, the field it names, the cause
Err(stage, fld, cause) == [stage |-> stage, field |-> fld, cause |-> cause]
NoErr == Err("", "", "")

(***************************************************************************)
(* timestamp package: the key and the layout of the timestamp field.       *)
(***************************************************************************)
TimestampKey == "_timestamp"
ValidTimestamp == "2020-05-01T10:00:00.000000Z"

\* time.Parse(timestamp.Layout, s)
ParseTime(s) == IF s = ValidTimestamp THEN [ok |-> TRUE, t |-> Time(s)]
                ELSE [ok |-> FALSE, t |-> Time("")]

(***************************************************************************)
(* typing package: DataTypes, inference, conversion, default types.        *)
(***************************************************************************)
DataTypes == {"UNKNOWN", "STRING", "INT64", "TIMESTAMP"}

\* typing.ReformatValue: json.Number into int64 (or float64)
ReformatValue(v) == IF v.k = "number" THEN Int64(v.s) ELSE v

\* typing.TypeFromValue
TypeFromValue(v) ==
  CASE v.k = "string" -> [ok |-> TRUE, t |-> "STRING"]
    [] v.k = "int" -> [ok |-> TRUE, t |-> "INT64"]
    [] v.k = "time" -> [ok |-> TRUE, t |-> "TIMESTAMP"]
    [] OTHER -> [ok |-> FALSE, t |-> "UNKNOWN"]

\* typing.Convert(toType, v)
Convert(toType, v) ==
  LET cur == TypeFromValue(v) IN
  IF ~cur.ok THEN [ok |-> FALSE, v |-> v]
  ELSE IF cur.t = toType THEN [ok |-> TRUE, v |-> v]
  ELSE CASE toType = "STRING" -> [ok |-> TRUE, v |-> Str(v.s)]
         [] toType = "INT64" /\ v.k = "string" ->
              IF v.s = "7" THEN [ok |-> TRUE, v |-> Int64(v.s)] ELSE [ok |-> FALSE, v |-> v]
         [] toType = "TIMESTAMP" /\ v.k = "string" ->
              IF ParseTime(v.s).ok THEN [ok |-> TRUE, v |-> ParseTime(v.s).t]
              ELSE [ok |-> FALSE, v |-> v]
         [] OTHER -> [ok |-> FALSE, v |-> v]

\* typing.DefaultTypes
DefaultTypes == [x \in {"_timestamp", "eventn_ctx_utc_time"} |-> "TIMESTAMP"]

(***************************************************************************)
(* Heap of maps.  Every top-level map has one address for the nested map   *)
(* under eventn_ctx.                                                       *)
(***************************************************************************)
InAddr(i) == <<"in1", "in2", "in3", "in4">>[i]
\* "ps": the object the parse function returned; "cp": the copy of processObject
TopAddrs == {InAddr(i) : i \in 1..MaxObjects} \cup {"ps", "cp"}
CtxAddr(addr) ==
  CASE addr = "in1" -> "in1c" [] addr = "in2" -> "in2c" [] addr = "in3" -> "in3c"
    [] addr = "in4" -> "in4c" [] addr = "ps" -> "psc" [] addr = "cp" -> "cpc"
    [] addr = "cp1" -> "cp1c" [] addr = "cp2" -> "cp2c"
Addrs == TopAddrs \cup {CtxAddr(x) : x \in TopAddrs}
EmptyHeap == [x \in Addrs |-> EmptyMap]

\* events/enricher.go
eventnKey == "eventn_ctx"
eventIdKey == "event_id"
collectionIdKey == "collection_id"
\* eventnKey + "_" + key, also the Flattener's name of a nested field
JoinKey(k, inner) ==
  CASE inner = "event_id" -> "eventn_ctx_event_id"
    [] inner = "collection_id" -> "eventn_ctx_collection_id"
    [] inner = "utc_time" -> "eventn_ctx_utc_time"

\* A record literal: the top-level scalar fields and the nested eventn_ctx map.
Lit(top, hasCtx, ctx) == [top |-> top, hasCtx |-> hasCtx, ctx |-> ctx]

\* the heap with literal lit built at addr
Load(h, lit, addr) ==
  IF lit.hasCtx
  THEN [h EXCEPT ![addr] = Put(lit.top, eventnKey, Ref(CtxAddr(addr))),
                 ![CtxAddr(addr)] = lit.ctx]
  ELSE [h EXCEPT ![addr] = lit.top, ![CtxAddr(addr)] = EmptyMap]

\* the literal that the map at addr currently spells
View(h, addr) ==
  LET m == h[addr]
      nested == eventnKey \in DOMAIN m /\ m[eventnKey].k = "map"
      scalars == IF nested THEN DOMAIN m \ {eventnKey} ELSE DOMAIN m
  IN Lit([x \in scalars |-> m[x]], nested, IF nested THEN h[m[eventnKey].a] ELSE EmptyMap)

Free(h, addr) == [h EXCEPT ![addr] = EmptyMap, ![CtxAddr(addr)] = EmptyMap]

\* maputils.CopyMap: a new map at dst; nested maps are copied too
CopyMap(h, src, dst) ==
  LET m == h[src]
      nested == eventnKey \in DOMAIN m /\ m[eventnKey].k = "map"
  IN IF nested
     THEN [h EXCEPT ![dst] = Put(m, eventnKey, Ref(CtxAddr(dst))),
                    ![CtxAddr(dst)] = h[m[eventnKey].a]]
     ELSE [h EXCEPT ![dst] = m]

\* EnrichWithEventId(object, eventId) on the map at addr
EnrichWithEventId(h, addr, eventId) ==
  LET object == h[addr] IN
  IF eventnKey \notin DOMAIN object
  THEN [h EXCEPT ![CtxAddr(addr)] = Put(EmptyMap, eventIdKey, Str(eventId)),
                 ![addr] = Put(object, eventnKey, Ref(CtxAddr(addr)))]
  ELSE IF object[eventnKey].k = "map"
       THEN LET e == object[eventnKey].a IN
            IF eventIdKey \notin DOMAIN h[e]
            THEN [h EXCEPT ![e] = Put(h[e], eventIdKey, Str(eventId))]
            ELSE h
       ELSE [h EXCEPT ![addr] = Put(object, JoinKey(eventnKey, eventIdKey), Str(eventId))]

\* EnrichWithCollection(object, collection) on the map at addr
EnrichWithCollection(h, addr, collection) ==
  LET object == h[addr] IN
  IF eventnKey \notin DOMAIN object
  THEN [h EXCEPT ![CtxAddr(addr)] = Put(EmptyMap, collectionIdKey, Str(collection)),
                 ![addr] = Put(object, eventnKey, Ref(CtxAddr(addr)))]
  ELSE IF object[eventnKey].k = "map"
       THEN LET e == object[eventnKey].a IN
            IF collectionIdKey \notin DOMAIN h[e]
            THEN [h EXCEPT ![e] = Put(h[e], collectionIdKey, Str(collection))]
            ELSE h
       ELSE [h EXCEPT ![addr] = Put(object, JoinKey(eventnKey, collectionIdKey), Str(collection))]

\* enrichment.Rule.Execute(object): the heap after the rule, or its failure.
\* "lookup" reads field a and fails without it; "event_id" and "collection"
\* add context in place.
RuleExecute(rule, h, addr) ==
  CASE rule = "lookup" -> [ok |-> "a" \in DOMAIN h[addr], h |-> h]
    [] rule = "event_id" -> [ok |-> TRUE, h |-> EnrichWithEventId(h, addr, "gen")]
    [] rule = "collection" -> [ok |-> TRUE, h |-> EnrichWithCollection(h, addr, "x")]

\* Mapper.Map(object): the default mapper returns the object itself
MapperMap(mapper, addr) == [ok |-> mapper # "broken", addr |-> addr]

\* Flattener.FlattenObject: a new single-level map
FlattenObject(h, addr) ==
  LET m == h[addr]
      nested == eventnKey \in DOMAIN m /\ m[eventnKey].k = "map"
      inner == IF nested THEN h[m[eventnKey].a] ELSE EmptyMap
      scalars == IF nested THEN DOMAIN m \ {eventnKey} ELSE DOMAIN m
      keys == scalars \cup {JoinKey(eventnKey, i) : i \in DOMAIN inner}
      Src(key) == IF key \in scalars THEN m[key]
                  ELSE inner[CHOOSE i \in DOMAIN inner : JoinKey(eventnKey, i) = key]
  IN [ok |-> (\A x \in scalars : m[x].k # "bad") /\ (\A i \in DOMAIN inner : inner[i].k # "bad"),
      m |-> [key \in keys |-> Src(key)]]

\* events.ExtractEventId(object)
ExtractEventId(h, addr) ==
  LET m == h[addr] IN
  IF eventnKey \in DOMAIN m /\ m[eventnKey].k = "map" /\ eventIdKey \in DOMAIN h[m[eventnKey].a]
  THEN h[m[eventnKey].a][eventIdKey].s ELSE ""

(***************************************************************************)
(* text/template: a parsed template is a sequence of parts.                *)
(*   lit    literal text                                                   *)
(*   field  {{.s}}: the value's text, or <no value> for a missing key      *)
(*   chain  {{.s.b}}: a field of a field; on a flat object .s is missing   *)
(*          (nil pointer) or a scalar (no such field): execution fails     *)
(***************************************************************************)
PLit(s) == [kind |-> "lit", s |-> s]
PField(s) == [kind |-> "field", s |-> s]
PChain(s) == [kind |-> "chain", s |-> s]

\* how fmt prints a value into the template output
Text(v) ==
  CASE v.k = "time" -> Chars("2020-05-01 10:00:00 +0000 UTC")
    [] v.k \in {"string", "number", "int"} -> Chars(v.s)
    [] OTHER -> <<"?">>

RECURSIVE TemplateExecute(_, _)
TemplateExecute(tmpl, object) ==
  IF tmpl = << >> THEN [ok |-> TRUE, out |-> << >>]
  ELSE LET part == Head(tmpl)
           rest == TemplateExecute(Tail(tmpl), object)
       IN CASE part.kind = "chain" -> [ok |-> FALSE, out |-> << >>]
            [] part.kind = "lit" -> [ok |-> rest.ok, out |-> Chars(part.s) \o rest.out]
            [] part.kind = "field" ->
                 [ok |-> rest.ok,
                  out |-> (IF part.s \in DOMAIN object THEN Text(object[part.s]) ELSE NoValue)
                          \o rest.out]

\* mutant of FormatTableName: the case is kept
FormatTableNameKeepCase(rendered) ==
  ReplaceAll(ReplaceAll(rendered, NoValue, NullText), <<" ">>, <<"_">>)

\* the post-processing of the rendered text
FormatTableName(rendered) ==
  ToLower(ReplaceAll(ReplaceAll(rendered, NoValue, NullText), <<" ">>, <<"_">>))

\* mutant of tableNameExtractFunc: a record without the timestamp field is
\* rendered as it is
tableNameExtractFuncUnchecked(tmpl, object) ==
  IF TimestampKey \notin DOMAIN object
  THEN LET exec == TemplateExecute(tmpl, object)
       IN IF ~exec.ok
          THEN [status |-> "err", name |-> << >>, cause |-> "template", object |-> object]
          ELSE [status |-> "ok", name |-> FormatTableName(exec.out), cause |-> "",
                object |-> object]
  ELSE LET ts == object[TimestampKey] IN
    IF ts.k # "string"
    THEN [status |-> "panic", name |-> << >>, cause |-> "type assertion", object |-> object]
    ELSE LET parsed == ParseTime(ts.s) IN
      IF ~parsed.ok
      THEN [status |-> "err", name |-> << >>, cause |-> "malformed timestamp", object |-> object]
      ELSE LET substituted == Put(object, TimestampKey, parsed.t)
               exec == TemplateExecute(tmpl, substituted)
           IN IF ~exec.ok
              THEN [status |-> "err", name |-> << >>, cause |-> "template",
                    object |-> substituted]
              ELSE [status |-> "ok", name |-> FormatTableName(exec.out), cause |-> "",
                    object |-> Put(substituted, TimestampKey, ts)]

\* tableNameExtractFunc(object): status "ok" | "err" | "panic", the name, the
\* error's cause and the object as the call leaves it
tableNameExtractFunc(tmpl, object) ==
  IF TimestampKey \notin DOMAIN object
  THEN [status |-> "err", name |-> << >>, cause |-> "no timestamp", object |-> object]
  ELSE LET ts == object[TimestampKey] IN
    \* ts.(string) panics on any other dynamic type
    IF ts.k # "string"
    THEN [status |-> "panic", name |-> << >>, cause |-> "type assertion", object |-> object]
    ELSE LET parsed == ParseTime(ts.s) IN
      IF ~parsed.ok
      THEN [status |-> "err", name |-> << >>, cause |-> "malformed timestamp", object |-> object]
      ELSE LET substituted == Put(object, TimestampKey, parsed.t)
               exec == TemplateExecute(tmpl, substituted)
           IN IF ~exec.ok
              THEN [status |-> "err", name |-> << >>, cause |-> "template",
                    object |-> substituted]
              ELSE [status |-> "ok", name |-> FormatTableName(exec.out), cause |-> "",
                    object |-> Put(substituted, TimestampKey, ts)]

(***************************************************************************)
(* Columns, Table, ProcessedFile.  A Column keeps the set of types seen    *)
(* for it (NewColumn: one type); Merge is the union per column name.       *)
(***************************************************************************)
NewColumn(t) == {t}
EmptyColumns == [x \in {} |-> {}]

\* Column.GetType: the type of the column, the common ancestor of several
GetType(column) ==
  IF column = {} THEN "UNKNOWN"
  ELSE IF Cardinality(column) = 1 THEN CHOOSE t \in column : TRUE
  ELSE "STRING"

\* dbSchema.Columns[k]: the zero Column for a missing key
ColumnOf(columns, k) == IF k \in DOMAIN columns THEN columns[k] ELSE {}

\* Columns.Merge(other)
Merge(columns, other) ==
  [x \in DOMAIN columns \cup DOMAIN other |-> ColumnOf(columns, x) \cup ColumnOf(other, x)]

Table(name, columns, pk) == [nil |-> FALSE, Name |-> name, Columns |-> columns, PKFields |-> pk]
NilTable == [nil |-> TRUE, Name |-> << >>, Columns |-> EmptyColumns, PKFields |-> {}]

\* Table.Exists
Exists(t) == ~t.nil /\ DOMAIN t.Columns # {}

ProcessedFile(fileName, t, payload) == [FileName |-> fileName, DataSchema |-> t, payload |-> payload]

FailedFact(event, err, eventId) == [Event |-> event, Error |-> err, EventId |-> eventId]

(***************************************************************************)
(* The typecast loop of processObject, for one field.                      *)
(***************************************************************************)
\* mutant of FieldResult: the default typecast is applied after the mapping
\* typecast and overrides it
FieldResultDefaultLast(typeCasts, k, raw) ==
  LET v == ReformatValue(raw)
      inferred == TypeFromValue(v)
      hasCast == k \in DOMAIN typeCasts
      cast == IF hasCast THEN Convert(typeCasts[k], v) ELSE [ok |-> TRUE, v |-> v]
      hasDefault == k \in DOMAIN DefaultTypes
      def == IF hasDefault THEN Convert(DefaultTypes[k], v) ELSE [ok |-> TRUE, v |-> v]
  IN IF ~inferred.ok THEN [ok |-> FALSE, err |-> Err("type", k, ""), t |-> "UNKNOWN", v |-> v]
     ELSE IF ~cast.ok THEN [ok |-> FALSE, err |-> Err("cast", k, typeCasts[k]), t |-> "UNKNOWN", v |-> v]
     ELSE IF ~def.ok THEN [ok |-> FALSE, err |-> Err("default", k, ""), t |-> "UNKNOWN", v |-> v]
     ELSE IF hasDefault THEN [ok |-> TRUE, err |-> NoErr, t |-> DefaultTypes[k], v |-> def.v]
     ELSE IF hasCast THEN [ok |-> TRUE, err |-> NoErr, t |-> typeCasts[k], v |-> cast.v]
     ELSE [ok |-> TRUE, err |-> NoErr, t |-> inferred.t, v |-> v]

\* the body of the loop for field k with value raw: the column type and the
\* value written back, or the error returned
FieldResult(typeCasts, k, raw) ==
  LET v == ReformatValue(raw)
      inferred == TypeFromValue(v)
      hasDefault == k \in DOMAIN DefaultTypes
      def == IF hasDefault THEN Convert(DefaultTypes[k], v) ELSE [ok |-> TRUE, v |-> v]
      hasCast == k \in DOMAIN typeCasts
      cast == IF hasCast THEN Convert(typeCasts[k], v) ELSE [ok |-> TRUE, v |-> v]
  IN IF ~inferred.ok THEN [ok |-> FALSE, err |-> Err("type", k, ""), t |-> "UNKNOWN", v |-> v]
     ELSE IF ~def.ok THEN [ok |-> FALSE, err |-> Err("default", k, ""), t |-> "UNKNOWN", v |-> v]
     ELSE IF ~cast.ok THEN [ok |-> FALSE, err |-> Err("cast", k, typeCasts[k]), t |-> "UNKNOWN", v |-> v]
     ELSE IF hasCast THEN [ok |-> TRUE, err |-> NoErr, t |-> typeCasts[k], v |-> cast.v]
     ELSE IF hasDefault THEN [ok |-> TRUE, err |-> NoErr, t |-> DefaultTypes[k], v |-> def.v]
     ELSE [ok |-> TRUE, err |-> NoErr, t |-> inferred.t, v |-> v]

(***************************************************************************)
(* Inputs: the records callers and payloads carry, and the Processors      *)
(* NewProcessor builds.                                                    *)
(***************************************************************************)
TS == Str(ValidTimestamp)
Fields1(k1, v1) == Put(EmptyMap, k1, v1)
Fields2(k1, v1, k2, v2) == Put(Put(EmptyMap, k1, v1), k2, v2)

LitNames == {"num", "str", "badts", "nots", "other", "intts", "ctxbad", "unflat", "emptya",
             "tsonly", "empty"}
LitOf(name) ==
  CASE name = "num" -> Lit(Fields2(TimestampKey, TS, "a", Num("7")), FALSE, EmptyMap)
    [] name = "str" -> Lit(Fields2(TimestampKey, TS, "a", Str("Ab c")), TRUE, Fields1("utc_time", TS))
    [] name = "badts" -> Lit(Fields2(TimestampKey, Str("yesterday"), "a", Num("7")), FALSE, EmptyMap)
    [] name = "nots" -> Lit(Fields1("a", Str("Ab c")), FALSE, EmptyMap)
    [] name = "other" -> Lit(Fields2(TimestampKey, TS, "a", OtherV), FALSE, EmptyMap)
    [] name = "intts" -> Lit(Fields1(TimestampKey, Int64("7")), FALSE, EmptyMap)
    [] name = "ctxbad" -> Lit(Fields1(TimestampKey, TS), TRUE,
                              Fields2("utc_time", Str("yesterday"), "event_id", Str("id1")))
    [] name = "unflat" -> Lit(Fields2(TimestampKey, TS, "a", BadV), FALSE, EmptyMap)
    [] name = "tsonly" -> Lit(Fields1(TimestampKey, TS), FALSE, EmptyMap)
    [] name = "emptya" -> Lit(Fields2(TimestampKey, TS, "a", Str("")), FALSE, EmptyMap)
    [] name = "empty" -> Lit(EmptyMap, FALSE, EmptyMap)

\* A payload byte: "\n", or the JSON text of one record, or text that is no JSON.
Newline == "\n"
Garbage == "{"
\* the records met in payloads
FileLitNames == {"num", "str", "badts", "emptya"}
LineContents == {<<n>> : n \in FileLitNames} \cup {<<Garbage>>, << >>}

\* the caller's parse function (JSON): trailing white space is ignored
parseFunc(ln) ==
  LET body == IF ln # << >> /\ ln[Len(ln)] = Newline THEN SubSeq(ln, 1, Len(ln) - 1) ELSE ln
  IN IF Len(body) = 1 /\ body[1] \in LitNames
     THEN [ok |-> TRUE, lit |-> LitOf(body[1])]
     ELSE [ok |-> FALSE, lit |-> Lit(EmptyMap, FALSE, EmptyMap)]

RECURSIVE JoinLines(_, _)
\* the payload of the given lines; the last one ends with "\n" iff terminated
JoinLines(lines, terminated) ==
  IF lines = << >> THEN << >>
  ELSE IF Len(lines) = 1 THEN (IF terminated THEN Head(lines) \o <<Newline>> ELSE Head(lines))
  ELSE Head(lines) \o <<Newline>> \o JoinLines(Tail(lines), terminated)

SeqsUpTo(S, n) == UNION {[1..m -> S] : m \in 0..n}

NoCasts == [x \in {} |-> "UNKNOWN"]
Processor(expr, tmpl, typeCasts, rules, mapper) ==
  [tableNameExpression |-> expr, tmpl |-> tmpl, typeCasts |-> typeCasts,
   enrichmentRules |-> rules, fieldMapper |-> mapper, pkFields |-> {"a"}]
Processors ==
  { Processor("events_{{.a}}", <<PLit("events_"), PField("a")>>,
              [x \in {"eventn_ctx_utc_time"} |-> "STRING"], << >>, "default"),
    Processor("{{.a}}", <<PField("a")>>, [x \in {"a"} |-> "INT64"], << >>, "default"),
    Processor("E {{._timestamp}}", <<PLit("E "), PField(TimestampKey)>>, NoCasts,
              <<"event_id", "lookup", "collection">>, "default"),
    Processor("x{{.a.b}}", <<PLit("x"), PChain("a")>>, NoCasts, << >>, "default"),
    Processor("events_{{.a}}", <<PLit("events_"), PField("a")>>, NoCasts, << >>, "broken") }

(***************************************************************************)
(* State.                                                                  *)
(***************************************************************************)
VARIABLES
  p,            \* the Processor (fixed after NewProcessor)
  pc,           \* position of the running call
  call,         \* the entry point called and its arguments
  objects,      \* the records the caller supplied, as supplied
  heap,         \* the maps in memory
  idx,          \* objects (or lines) taken so far by the loop
  reader,       \* ProcessFilePayload: payload, offset, line and readErr
  object,       \* processObject: address of its argument
  objectCopy,   \* processObject: address of objectCopy
  ruleIdx,      \* processObject: next enrichment rule
  mappedObject, \* processObject: address of mappedObject
  flatObject,   \* processObject: the flattened map
  extracted,    \* processObject: what tableNameExtractFunc returned
  po,           \* what processObject returned: table, object, err
  files,        \* filePerTable / unitPerTable
  failedFacts,  \* ProcessFilePayload: failedFacts
  ret,          \* what the entry point returned
  seen,         \* history: the objects stored in files by this call, in order
  db,           \* the running ApplyDBTyping / ApplyDBTypingToObject call
  par           \* two calls running concurrently on the Processor

vars == <<p, pc, call, objects, heap, idx, reader, object, objectCopy, ruleIdx,
          mappedObject, flatObject, extracted, po, files, failedFacts, ret, seen, db, par>>

\* the state of the three entry points and of processObject
procVars == <<pc, call, objects, heap, idx, reader, object, objectCopy, ruleIdx,
              mappedObject, flatObject, extracted, po, files, failedFacts, ret, seen>>

NoCall == [fn |-> "", fileName |-> "", breakOnError |-> FALSE]
NoReader == [payload |-> << >>, pos |-> 0, line |-> << >>, readErr |-> ""]
NoExtract == [status |-> "", name |-> << >>, cause |-> ""]
NoPo == [table |-> NilTable, object |-> EmptyMap, err |-> NoErr]
NoFiles == [x \in {} |-> ProcessedFile("", NilTable, << >>)]
NoRet == [nilFiles |-> TRUE, files |-> NoFiles, failedFacts |-> << >>, err |-> NoErr]

Idle ==
  /\ pc = "idle" /\ call = NoCall /\ objects = << >> /\ heap = EmptyHeap /\ idx = 0
  /\ reader = NoReader /\ object = "" /\ objectCopy = "" /\ ruleIdx = 0
  /\ mappedObject = ""
  /\ flatObject = EmptyMap /\ extracted = NoExtract /\ po = NoPo /\ files = NoFiles
  /\ failedFacts = << >> /\ ret = NoRet /\ seen = << >>

NoDb == [pc |-> "idle", fn |-> "", dbSchema |-> NilTable, payload |-> << >>, before |-> << >>,
         i |-> 0, todo |-> {}, err |-> NoErr]

\* the two goroutines, and the maps each of them can reach
Calls == {1, 2}
ParAddrs == {"in1", "in2", "cp1", "cp2"}
ParEmptyHeap == [x \in ParAddrs \cup {CtxAddr(a) : a \in ParAddrs} |-> EmptyMap]
NoParCall == [pc |-> "idle", fn |-> "", batch |-> << >>, i |-> 0, objectCopy |-> "",
              ruleIdx |-> 0, flatObject |-> EmptyMap, po |-> NoPo, files |-> NoFiles,
              ret |-> [po |-> NoPo, out |-> NoRet]]
NoPar == [on |-> FALSE, crashed |-> FALSE, overlap |-> FALSE, lits |-> << >>,
          heap |-> ParEmptyHeap, c |-> [x \in Calls |-> NoParCall]]

Init == p \in Processors /\ Idle /\ db = NoDb /\ par = NoPar

\* what a call leaves alone until processObject runs
StartProcessObject(addr) ==
  /\ object' = addr
  /\ pc' = "copy"
  /\ UNCHANGED <<par, db, p, objectCopy, ruleIdx, mappedObject, flatObject, extracted, po, files,
                 failedFacts, ret, seen>>

(***************************************************************************)
(* bufio.Reader.ReadBytes('\n') on the payload from offset pos.            *)
(***************************************************************************)
ReadBytes(payload, pos) ==
  LET rest == SubSeq(payload, pos + 1, Len(payload))
      nl == {i \in 1..Len(rest) : rest[i] = Newline}
  IN IF nl = {}
     THEN [payload |-> payload, pos |-> Len(payload), line |-> rest, readErr |-> "EOF"]
     ELSE LET i == CHOOSE x \in nl : \A y \in nl : x <= y
          IN [payload |-> payload, pos |-> pos + i, line |-> SubSeq(rest, 1, i), readErr |-> ""]

(***************************************************************************)
(* Entry points: the call itself.                                          *)
(***************************************************************************)
\* ProcessFact(fact)
CallProcessFact ==
  \E l \in LitNames :
    /\ pc = "idle"
    /\ call' = [fn |-> "ProcessFact", fileName |-> "", breakOnError |-> FALSE]
    /\ objects' = <<l>>
    /\ heap' = Load(heap, LitOf(l), InAddr(1))
    /\ idx' = 1
    /\ UNCHANGED reader
    /\ StartProcessObject(InAddr(1))

RECURSIVE LoadAll(_, _, _)
LoadAll(h, ls, i) == IF i > Len(ls) THEN h ELSE LoadAll(Load(h, LitOf(ls[i]), InAddr(i)), ls, i + 1)

\* ProcessObjects(objects): unitPerTable := map[string]*ProcessedFile{}
CallProcessObjects ==
  \E ls \in SeqsUpTo(LitNames, MaxObjects) :
    /\ pc = "idle"
    /\ call' = [fn |-> "ProcessObjects", fileName |-> "", breakOnError |-> FALSE]
    /\ objects' = ls
    /\ heap' = LoadAll(heap, ls, 1)
    /\ pc' = "range"
    /\ UNCHANGED <<par, db, p, idx, reader, object, objectCopy, ruleIdx, mappedObject, flatObject,
                   extracted, po,
                   files, failedFacts, ret, seen>>

\* ProcessFilePayload(fileName, payload, breakOnError, parseFunc), up to the
\* first ReadBytes
CallProcessFilePayload ==
  \E lines \in SeqsUpTo(LineContents, MaxLines), terminated \in BOOLEAN, brk \in BOOLEAN :
    /\ pc = "idle"
    /\ call' = [fn |-> "ProcessFilePayload", fileName |-> "f.log", breakOnError |-> brk]
    /\ reader' = ReadBytes(JoinLines(lines, terminated), 0)
    /\ pc' = "for"
    /\ UNCHANGED <<par, db, p, objects, heap, idx, object, objectCopy, ruleIdx, mappedObject, flatObject,
                   extracted,
                   po, files, failedFacts, ret, seen>>

(***************************************************************************)
(* processObject(objectsss), one action per stage.                         *)
(***************************************************************************)
\* mutant of CopyTarget: objectCopy := objectsss, no copy is made
CopyTargetAliased(objectsss) == objectsss

\* objectCopy := maputils.CopyMap(objectsss): where the copy lives
CopyTarget(objectsss) == "cp"

\* processObject returns: the copy and the flat map are garbage
PoReturn(h, result) ==
  /\ po' = result
  /\ heap' = Free(h, "cp")
  /\ pc' = "return"
  /\ objectCopy' = ""
  /\ ruleIdx' = 0
  /\ mappedObject' = ""
  /\ flatObject' = EmptyMap
  /\ extracted' = NoExtract

PoFail(h, err) == PoReturn(h, [table |-> NilTable, object |-> EmptyMap, err |-> err])

PoCopy ==
  /\ pc = "copy"
  /\ heap' = CopyMap(heap, object, CopyTarget(object))
  /\ objectCopy' = CopyTarget(object)
  /\ ruleIdx' = 1
  /\ po' = NoPo
  /\ pc' = "enrich"
  /\ UNCHANGED <<par, db, p, call, objects, idx, reader, object, mappedObject, flatObject, extracted,
                 files, failedFacts, ret, seen>>

\* mutant of RuleAborts: a failing rule is passed over
RuleAbortsNever(ok) == FALSE

\* err := rule.Execute(objectCopy); if err != nil { return nil, nil, ... }
RuleAborts(ok) == ~ok

\* one turn of: for _, rule := range p.enrichmentRules
PoEnrich ==
  /\ pc = "enrich"
  /\ ruleIdx <= Len(p.enrichmentRules)
  /\ LET rule == p.enrichmentRules[ruleIdx]
         r == RuleExecute(rule, heap, objectCopy)
     IN IF ~RuleAborts(r.ok)
        THEN /\ heap' = r.h
             /\ ruleIdx' = ruleIdx + 1
             /\ UNCHANGED <<pc, objectCopy, mappedObject, flatObject, extracted, po>>
        ELSE PoFail(heap, Err("enrichment rule", rule, ""))
  /\ UNCHANGED <<par, db, p, call, objects, idx, reader, object, files, failedFacts, ret, seen>>

\* mappedObject, err := p.fieldMapper.Map(objectCopy)
PoMap ==
  /\ pc = "enrich"
  /\ ruleIdx > Len(p.enrichmentRules)
  /\ LET mapped == MapperMap(p.fieldMapper, objectCopy)
     IN IF ~mapped.ok THEN PoFail(heap, Err("mapping", "", ""))
        ELSE /\ mappedObject' = mapped.addr
             /\ pc' = "flatten"
             /\ UNCHANGED <<heap, objectCopy, ruleIdx, flatObject, extracted, po>>
  /\ UNCHANGED <<par, db, p, call, objects, idx, reader, object, files, failedFacts, ret, seen>>

\* flatObject, err := p.flattener.FlattenObject(mappedObject)
PoFlatten ==
  /\ pc = "flatten"
  /\ LET flat == FlattenObject(heap, mappedObject)
     IN IF ~flat.ok THEN PoFail(heap, Err("flatten", "", ""))
        ELSE /\ flatObject' = flat.m
             /\ pc' = "tablename"
             /\ UNCHANGED <<heap, objectCopy, ruleIdx, mappedObject, extracted, po>>
  /\ UNCHANGED <<par, db, p, call, objects, idx, reader, object, files, failedFacts, ret, seen>>

\* tableName, err := p.tableNameExtractFunc(flatObject): the call, which
\* works on flatObject in place
PoTableName ==
  /\ pc = "tablename"
  /\ LET r == tableNameExtractFunc(p.tmpl, flatObject)
     IN /\ flatObject' = r.object
        /\ extracted' = [status |-> r.status, name |-> r.name, cause |-> r.cause]
        /\ pc' = IF r.status = "panic" THEN "panic" ELSE "extracted"
  /\ UNCHANGED <<par, db, p, call, objects, heap, idx, reader, object, objectCopy, ruleIdx,
                 mappedObject, po, files, failedFacts, ret, seen>>

\* if tableName == "" { return ... Unknown table name }
NameRejected(tableName) == tableName = << >>

\* the checks of what tableNameExtractFunc returned
PoNameCheck ==
  /\ pc = "extracted"
  /\ IF extracted.status = "err"
     THEN PoFail(heap, Err("table name", p.tableNameExpression, extracted.cause))
     ELSE IF NameRejected(extracted.name)
     THEN PoFail(heap, Err("unknown table name", p.tableNameExpression, ""))
     ELSE /\ pc' = "typing"
          /\ UNCHANGED <<heap, objectCopy, ruleIdx, mappedObject, flatObject, extracted, po>>
  /\ UNCHANGED <<par, db, p, call, objects, idx, reader, object, files, failedFacts, ret, seen>>

\* the typecast loop over flatObject: the first failing field met ends it,
\* and Go ranges over a map in any order
PoTyping ==
  /\ pc = "typing"
  /\ LET res == [k \in DOMAIN flatObject |-> FieldResult(p.typeCasts, k, flatObject[k])]
         failing == {k \in DOMAIN flatObject : ~res[k].ok}
     IN IF failing # {}
        THEN \E k \in failing : PoFail(heap, res[k].err)
        ELSE PoReturn(heap,
               [table |-> Table(extracted.name,
                                [k \in DOMAIN flatObject |-> NewColumn(res[k].t)],
                                p.pkFields),
                object |-> [k \in DOMAIN flatObject |-> res[k].v],
                err |-> NoErr])
  /\ UNCHANGED <<par, db, p, call, objects, idx, reader, object, files, failedFacts, ret, seen>>

(***************************************************************************)
(* The loops of the entry points.                                          *)
(***************************************************************************)
\* mutant of StoreObject: a recurring table's columns are not merged
StoreObjectNoMerge(fs, fileName, t, processedObject) ==
  IF t.Name \notin DOMAIN fs
  THEN [x \in DOMAIN fs \cup {t.Name} |->
          IF x = t.Name THEN ProcessedFile(fileName, t, <<processedObject>>) ELSE fs[x]]
  ELSE [fs EXCEPT ![t.Name].payload = Append(@, processedObject)]

\* mutant of StoreObject: a recurring table's schema is replaced by the new one
StoreObjectReplace(fs, fileName, t, processedObject) ==
  IF t.Name \notin DOMAIN fs
  THEN [x \in DOMAIN fs \cup {t.Name} |->
          IF x = t.Name THEN ProcessedFile(fileName, t, <<processedObject>>) ELSE fs[x]]
  ELSE [fs EXCEPT ![t.Name].DataSchema.Columns = t.Columns,
                  ![t.Name].payload = Append(@, processedObject)]

\* mutant of StoreObject: a recurring table's record is put first
StoreObjectPrepend(fs, fileName, t, processedObject) ==
  IF t.Name \notin DOMAIN fs
  THEN [x \in DOMAIN fs \cup {t.Name} |->
          IF x = t.Name THEN ProcessedFile(fileName, t, <<processedObject>>) ELSE fs[x]]
  ELSE [fs EXCEPT ![t.Name].DataSchema.Columns = Merge(@, t.Columns),
                  ![t.Name].payload = <<processedObject>> \o @]

\* f, ok := filePerTable[table.Name]; if !ok { new ProcessedFile } else
\* { f.DataSchema.Columns.Merge(table.Columns); append to f.payload }
StoreObject(fs, fileName, t, processedObject) ==
  IF t.Name \notin DOMAIN fs
  THEN [x \in DOMAIN fs \cup {t.Name} |->
          IF x = t.Name THEN ProcessedFile(fileName, t, <<processedObject>>) ELSE fs[x]]
  ELSE [fs EXCEPT ![t.Name].DataSchema.Columns = Merge(@, t.Columns),
                  ![t.Name].payload = Append(@, processedObject)]

\* mutant of FailedEvent: the line is kept whole
FailedEventWhole(ln) == ln

\* Event: line[:len(line)-1], "remove last byte (\n)"
FailedEvent(ln) == SubSeq(ln, 1, Len(ln) - 1)

Returned(nilFiles, fs, ff, err) ==
  [nilFiles |-> nilFiles, files |-> fs, failedFacts |-> ff, err |-> err]

\* mutant of ReturnError: what was gathered so far is returned with the error
ReturnErrorPartial(fs, ff, err) == Returned(FALSE, fs, ff, err)

\* return nil, nil, err (ProcessFilePayload) and return nil, err (ProcessObjects)
ReturnError(fs, ff, err) == Returned(TRUE, NoFiles, << >>, err)

\* history entry: the n-th input, the record src it carried, where it was stored
Stored(n, src, t, processedObject) ==
  [n |-> n, src |-> src, name |-> t.Name, cols |-> DOMAIN t.Columns, object |-> processedObject]

(***************************************************************************)
(* processObject and ProcessObjects as functions: what one call, running   *)
(* by itself on a heap of its own, can return.                             *)
(***************************************************************************)
RECURSIVE RunRules(_, _, _, _)
\* for _, rule := range p.enrichmentRules, from the i-th rule on
RunRules(rules, i, h, addr) ==
  IF i > Len(rules) THEN [ok |-> TRUE, h |-> h, rule |-> ""]
  ELSE LET r == RuleExecute(rules[i], h, addr)
       IN IF RuleAborts(r.ok) THEN [ok |-> FALSE, h |-> h, rule |-> rules[i]]
          ELSE RunRules(rules, i + 1, r.h, addr)

Outcome(status, table, o, err) ==
  [status |-> status, po |-> [table |-> table, object |-> o, err |-> err]]
Failure(err) == Outcome("err", NilTable, EmptyMap, err)

\* the table-name extraction and the typecast loop on the flattened record
Resolve(pr, flat) ==
  LET ex == tableNameExtractFunc(pr.tmpl, flat)
      res == [k \in DOMAIN ex.object |-> FieldResult(pr.typeCasts, k, ex.object[k])]
      failing == {k \in DOMAIN ex.object : ~res[k].ok}
  IN IF ex.status = "panic" THEN {Outcome("panic", NilTable, EmptyMap, NoErr)}
     ELSE IF ex.status = "err"
     THEN {Failure(Err("table name", pr.tableNameExpression, ex.cause))}
     ELSE IF NameRejected(ex.name)
     THEN {Failure(Err("unknown table name", pr.tableNameExpression, ""))}
     ELSE IF failing # {} THEN {Failure(res[k].err) : k \in failing}
     ELSE {Outcome("ok",
                   Table(ex.name, [k \in DOMAIN ex.object |-> NewColumn(res[k].t)], pr.pkFields),
                   [k \in DOMAIN ex.object |-> res[k].v], NoErr)}

\* processObject(objectsss) of Processor pr on heap h, its copy made at dst:
\* the outcomes it can have (a range over a map takes any order)
processObject(pr, h, objectsss, dst) ==
  LET enriched == RunRules(pr.enrichmentRules, 1, CopyMap(h, objectsss, dst), dst)
      mapped == MapperMap(pr.fieldMapper, dst)
      flat == FlattenObject(enriched.h, mapped.addr)
  IN IF ~enriched.ok THEN {Failure(Err("enrichment rule", enriched.rule, ""))}
     ELSE IF ~mapped.ok THEN {Failure(Err("mapping", "", ""))}
     ELSE IF ~flat.ok THEN {Failure(Err("flatten", "", ""))}
     ELSE Resolve(pr, flat.m)

\* processObject on record literal l, alone
processObjectAlone(pr, l) == processObject(pr, Load(EmptyHeap, LitOf(l), "in1"), "in1", "cp")

RECURSIVE ProcessObjectsAlone(_, _, _, _)
\* ProcessObjects(objects) from the i-th object on, with unitPerTable = fs:
\* the results it can return (none when processObject panics)
ProcessObjectsAlone(pr, ls, i, fs) ==
  IF i > Len(ls) THEN {Returned(FALSE, fs, << >>, NoErr)}
  ELSE UNION {
    IF o.status = "panic" THEN {}
    ELSE IF o.po.err # NoErr THEN {ReturnError(fs, << >>, o.po.err)}
    ELSE IF ~Exists(o.po.table) THEN ProcessObjectsAlone(pr, ls, i + 1, fs)
    ELSE ProcessObjectsAlone(pr, ls, i + 1, StoreObject(fs, "", o.po.table, o.po.object))
    : o \in processObjectAlone(pr, ls[i]) }

\* ProcessFact returns what processObject returned
FactReturn ==
  /\ pc = "return" /\ call.fn = "ProcessFact"
  /\ ret' = Returned(TRUE, NoFiles, << >>, po.err)
  /\ pc' = "done"
  /\ UNCHANGED <<par, db, p, call, objects, heap, idx, reader, object, objectCopy, ruleIdx, mappedObject,
                 flatObject, extracted, po, files, failedFacts, seen>>

\* ProcessObjects: for _, object := range objects, and the return after it
ObjectsRange ==
  /\ pc = "range"
  /\ IF idx < Len(objects)
     THEN /\ idx' = idx + 1
          /\ object' = InAddr(idx + 1)
          /\ pc' = "copy"
          /\ UNCHANGED ret
     ELSE /\ ret' = Returned(FALSE, files, << >>, NoErr)
          /\ pc' = "done"
          /\ UNCHANGED <<idx, object>>
  /\ UNCHANGED <<par, db, p, call, objects, heap, reader, objectCopy, ruleIdx, mappedObject, flatObject,
                 extracted, po, files, failedFacts, seen>>

\* ProcessObjects: the loop body after processObject
ObjectsBody ==
  /\ pc = "return" /\ call.fn = "ProcessObjects"
  /\ IF po.err # NoErr
     THEN /\ ret' = ReturnError(files, << >>, po.err)
          /\ pc' = "done"
          /\ UNCHANGED <<files, seen>>
     ELSE IF ~Exists(po.table)
     THEN /\ pc' = "range"
          /\ UNCHANGED <<files, seen, ret>>
     ELSE /\ files' = StoreObject(files, "", po.table, po.object)
          /\ seen' = Append(seen, Stored(idx, objects[idx], po.table, po.object))
          /\ pc' = "range"
          /\ UNCHANGED ret
  /\ UNCHANGED <<par, db, p, call, objects, heap, idx, reader, object, objectCopy, ruleIdx, mappedObject,
                 flatObject, extracted, po, failedFacts>>

\* mutant of ParseFailed: what was gathered goes back with the parse error
ParseFailedPartial(fs, ff) == Returned(FALSE, fs, ff, Err("parse", "", ""))

\* object, err := parseFunc(line); if err != nil { return nil, nil, err }
ParseFailed(fs, ff) == ReturnError(fs, ff, Err("parse", "", ""))

\* ProcessFilePayload: for readErr == nil { object, err := parseFunc(line) ... },
\* and the return after the loop
FileFor ==
  /\ pc = "for"
  /\ IF reader.readErr # ""
     THEN /\ ret' = Returned(FALSE, files, failedFacts, NoErr)
          /\ pc' = "done"
          /\ UNCHANGED <<heap, idx, object>>
     ELSE LET parsed == parseFunc(reader.line) IN
          IF ~parsed.ok
          THEN /\ ret' = ParseFailed(files, failedFacts)
               /\ pc' = "done"
               /\ UNCHANGED <<heap, idx, object>>
          ELSE /\ heap' = Load(heap, parsed.lit, "ps")
               /\ idx' = idx + 1
               /\ object' = "ps"
               /\ pc' = "copy"
               /\ UNCHANGED ret
  /\ UNCHANGED <<par, db, p, call, objects, reader, objectCopy, ruleIdx, mappedObject, flatObject,
                 extracted, po, files, failedFacts, seen>>

\* ProcessFilePayload: the loop body after processObject, to the next ReadBytes
\* (a bytes.Buffer fails a read with io.EOF only)
FileBody ==
  /\ pc = "return" /\ call.fn = "ProcessFilePayload"
  /\ IF po.err # NoErr /\ call.breakOnError
     THEN /\ ret' = ReturnError(files, failedFacts, po.err)
          /\ pc' = "done"
          /\ UNCHANGED <<heap, reader, files, failedFacts, seen>>
     ELSE /\ failedFacts' =
               IF po.err # NoErr
               THEN Append(failedFacts,
                           FailedFact(FailedEvent(reader.line), po.err,
                                      ExtractEventId(heap, object)))
               ELSE failedFacts
          /\ IF Exists(po.table)
             THEN /\ files' = StoreObject(files, call.fileName, po.table, po.object)
                  /\ seen' = Append(seen, Stored(idx, reader.line[1], po.table, po.object))
             ELSE UNCHANGED <<files, seen>>
          /\ reader' = ReadBytes(reader.payload, reader.pos)
          /\ heap' = Free(heap, "ps")
          /\ pc' = "for"
          /\ UNCHANGED ret
  /\ UNCHANGED <<par, db, p, call, objects, idx, object, objectCopy, ruleIdx, mappedObject, flatObject,
                 extracted, po>>

\* the caller takes the result; the Processor is ready for the next call
Return ==
  /\ pc = "done"
  /\ pc' = "idle" /\ call' = NoCall /\ objects' = << >> /\ heap' = EmptyHeap /\ idx' = 0
  /\ reader' = NoReader /\ object' = "" /\ objectCopy' = "" /\ ruleIdx' = 0
  /\ mappedObject' = "" /\ flatObject' = EmptyMap /\ extracted' = NoExtract /\ po' = NoPo
  /\ files' = NoFiles /\ failedFacts' = << >> /\ ret' = NoRet /\ seen' = << >>
  /\ UNCHANGED <<par, db, p>>

Next ==
  \/ CallProcessFact \/ CallProcessObjects \/ CallProcessFilePayload
  \/ PoCopy \/ PoEnrich \/ PoMap \/ PoFlatten \/ PoTableName \/ PoNameCheck \/ PoTyping
  \/ FactReturn \/ ObjectsRange \/ ObjectsBody \/ FileFor \/ FileBody
  \/ Return

Spec == Init /\ [][Next]_vars

(***************************************************************************)
(* ApplyDBTyping(dbSchema, pf) and ApplyDBTypingToObject(dbSchema, object) *)
(* on records already flattened and typed.                                 *)
(***************************************************************************)
TimeV == Time(ValidTimestamp)
Fields3(k1, v1, k2, v2, k3, v3) == Put(Fields2(k1, v1, k2, v2), k3, v3)
FlatObjects ==
  { Fields2(TimestampKey, TimeV, "a", Int64("7")),
    Fields2(TimestampKey, TimeV, "a", Str("Ab c")),
    Fields3(TimestampKey, TimeV, "a", Str("7"), "eventn_ctx_utc_time", TimeV) }

Columns1(k1, c1) == [x \in {k1} |-> c1]
Columns2(k1, c1, k2, c2) == Merge(Columns1(k1, c1), Columns1(k2, c2))
Columns3(k1, c1, k2, c2, k3, c3) == Merge(Columns2(k1, c1, k2, c2), Columns1(k3, c3))
\* the schemas a destination may have resolved
DbSchemas ==
  { Table(<<"e">>, Columns2(TimestampKey, {"TIMESTAMP"}, "a", {"STRING"}), {}),
    Table(<<"e">>, Columns3(TimestampKey, {"STRING"}, "a", {"INT64"},
                            "eventn_ctx_utc_time", {"TIMESTAMP"}), {}),
    Table(<<"e">>, Columns3(TimestampKey, {"TIMESTAMP"}, "a", {"INT64", "STRING"},
                            "eventn_ctx_utc_time", {"STRING"}), {}),
    Table(<<"e">>, Columns1(TimestampKey, {"TIMESTAMP"}), {}) }

\* mutant of DbColumnType: a field without a column is taken as a string
DbColumnTypeLenient(dbSchema, k) ==
  IF k \in DOMAIN dbSchema.Columns THEN GetType(dbSchema.Columns[k]) ELSE "STRING"

\* column := dbSchema.Columns[k]; column.GetType()
DbColumnType(dbSchema, k) == GetType(ColumnOf(dbSchema.Columns, k))

\* mutant of DbAssign: the converted value is dropped
DbAssignSkipped(o, k, converted) == o

\* mutant of DbAssign: the value is written under the upper-case name
DbAssignRenamed(o, k, converted) ==
  IF k = "a" THEN Put([x \in DOMAIN o \ {k} |-> o[x]], "A", converted) ELSE Put(o, k, converted)

\* object[k] = converted
DbAssign(o, k, converted) == Put(o, k, converted)

CallApplyDBTypingToObject ==
  \E dbSchema \in DbSchemas, o \in FlatObjects :
    /\ db.pc = "idle"
    /\ db' = [pc |-> "object", fn |-> "ApplyDBTypingToObject", dbSchema |-> dbSchema,
              payload |-> <<o>>, before |-> <<o>>, i |-> 1, todo |-> DOMAIN o, err |-> NoErr]
    /\ UNCHANGED <<par, p, procVars>>

CallApplyDBTyping ==
  \E dbSchema \in DbSchemas, payload \in SeqsUpTo(FlatObjects, MaxBuffered) :
    /\ db.pc = "idle"
    /\ db' = [pc |-> "range", fn |-> "ApplyDBTyping", dbSchema |-> dbSchema,
              payload |-> payload, before |-> payload, i |-> 0, todo |-> {}, err |-> NoErr]
    /\ UNCHANGED <<par, p, procVars>>

\* ApplyDBTyping: for _, object := range pf.payload, and return nil after it
DbRange ==
  /\ db.pc = "range"
  /\ IF db.i < Len(db.payload)
     THEN db' = [db EXCEPT !.i = @ + 1, !.todo = DOMAIN db.payload[db.i + 1], !.pc = "object"]
     ELSE db' = [db EXCEPT !.pc = "done"]
  /\ UNCHANGED <<par, p, procVars>>

\* ApplyDBTypingToObject: one turn of for k, v := range object (any order);
\* its error is returned by ApplyDBTyping at once
DbField ==
  /\ db.pc = "object"
  /\ \E k \in db.todo :
       LET v == db.payload[db.i][k]
           converted == Convert(DbColumnType(db.dbSchema, k), v)
       IN IF ~converted.ok
          THEN db' = [db EXCEPT !.err = Err("DB type", k, DbColumnType(db.dbSchema, k)),
                                !.pc = "done"]
          ELSE db' = [db EXCEPT !.payload[db.i] = DbAssign(@, k, converted.v),
                                !.todo = @ \ {k}]
  /\ UNCHANGED <<par, p, procVars>>

\* ApplyDBTypingToObject: return nil
DbObjectDone ==
  /\ db.pc = "object"
  /\ db.todo = {}
  /\ db' = [db EXCEPT !.pc = IF db.fn = "ApplyDBTyping" THEN "range" ELSE "done"]
  /\ UNCHANGED <<par, p, procVars>>

DbReturn ==
  /\ db.pc = "done"
  /\ db' = NoDb
  /\ UNCHANGED <<par, p, procVars>>

NextDB ==
  \/ CallApplyDBTypingToObject \/ CallApplyDBTyping
  \/ DbRange \/ DbField \/ DbObjectDone \/ DbReturn

SpecDB == Init /\ [][NextDB]_vars

(***************************************************************************)
(* Two calls of ProcessFact / ProcessObjects on the same Processor, their  *)
(* steps interleaved.  The caller's records in1 and in2 may be handed to   *)
(* both calls; everything a call allocates is its own.                     *)
(***************************************************************************)
\* the records the caller holds
ParLits == {"num", "str", "nots", "intts"}
\* the calls a goroutine makes
ParCallKinds ==
  { [fn |-> "ProcessFact", batch |-> <<"in1">>],
    [fn |-> "ProcessObjects", batch |-> <<"in1", "in2">>],
    [fn |-> "ProcessObjects", batch |-> <<"in2", "in1">>] }

\* mutant of ParCopyTarget: one scratch map serves every call
ParCopyTargetShared(c, objectsss) == "cp1"

\* objectCopy := maputils.CopyMap(objectsss): a new map for each call
ParCopyTarget(c, objectsss) == IF c = 1 THEN "cp1" ELSE "cp2"

\* the literal the caller's record at addr was built from
ParLitAt(addr) == IF addr = "in1" THEN par.lits[1] ELSE par.lits[2]

\* call c is inside processObject
InProcessObject(st) == st.pc \in {"enrich", "resolve", "return"}

\* the state after a step that changes the heap to h and call c to st
ParStep(c, h, st) ==
  LET cs == [par.c EXCEPT ![c] = st]
  IN /\ par' = [par EXCEPT !.heap = h, !.c = cs,
                           !.overlap = @ \/ \A d \in Calls : InProcessObject(cs[d])]
     /\ UNCHANGED <<p, db, procVars>>

ParRunning(c) == par.on /\ ~par.crashed

ParStart ==
  /\ ~par.on
  /\ \E l1, l2 \in ParLits, k1, k2 \in ParCallKinds :
       par' = [NoPar EXCEPT
                 !.on = TRUE, !.lits = <<l1, l2>>,
                 !.heap = Load(Load(ParEmptyHeap, LitOf(l1), "in1"), LitOf(l2), "in2"),
                 !.c = [x \in Calls |->
                          LET k == IF x = 1 THEN k1 ELSE k2
                          IN [NoParCall EXCEPT !.pc = "range", !.fn = k.fn, !.batch = k.batch]]]
  /\ UNCHANGED <<p, db, procVars>>

\* the loop of ProcessObjects (ProcessFact: the one call of processObject)
ParRange(c) ==
  LET st == par.c[c] IN
  /\ ParRunning(c) /\ st.pc = "range"
  /\ IF st.i < Len(st.batch)
     THEN ParStep(c, par.heap, [st EXCEPT !.i = @ + 1, !.pc = "copy"])
     ELSE ParStep(c, par.heap,
                  [st EXCEPT !.pc = "done",
                             !.ret = [po |-> NoPo,
                                      out |-> Returned(FALSE, st.files, << >>, NoErr)]])

ParCopy(c) ==
  LET st == par.c[c]
      dst == ParCopyTarget(c, st.batch[st.i])
  IN /\ ParRunning(c) /\ st.pc = "copy"
     /\ ParStep(c, CopyMap(par.heap, st.batch[st.i], dst),
                [st EXCEPT !.objectCopy = dst, !.ruleIdx = 1, !.po = NoPo, !.pc = "enrich"])

\* processObject of call c returns result
ParPoReturn(c, st, result) ==
  ParStep(c, Free(par.heap, st.objectCopy),
          [st EXCEPT !.po = result, !.pc = "return", !.objectCopy = "", !.ruleIdx = 0,
                     !.flatObject = EmptyMap])

ParEnrich(c) ==
  LET st == par.c[c] IN
  /\ ParRunning(c) /\ st.pc = "enrich" /\ st.ruleIdx <= Len(p.enrichmentRules)
  /\ LET rule == p.enrichmentRules[st.ruleIdx]
         r == RuleExecute(rule, par.heap, st.objectCopy)
     IN IF ~RuleAborts(r.ok)
        THEN ParStep(c, r.h, [st EXCEPT !.ruleIdx = @ + 1])
        ELSE ParPoReturn(c, st, Failure(Err("enrichment rule", rule, "")).po)

\* Map and FlattenObject
ParFlatten(c) ==
  LET st == par.c[c]
      mapped == MapperMap(p.fieldMapper, st.objectCopy)
      flat == FlattenObject(par.heap, mapped.addr)
  IN /\ ParRunning(c) /\ st.pc = "enrich" /\ st.ruleIdx > Len(p.enrichmentRules)
     /\ IF ~mapped.ok THEN ParPoReturn(c, st, Failure(Err("mapping", "", "")).po)
        ELSE IF ~flat.ok THEN ParPoReturn(c, st, Failure(Err("flatten", "", "")).po)
        ELSE ParStep(c, par.heap, [st EXCEPT !.flatObject = flat.m, !.pc = "resolve"])

\* table-name extraction and the typecast loop, on the call's flat map; a
\* panic ends the goroutine when its caller recovers it, and the program
\* with every call in it otherwise
ParResolve(c) ==
  LET st == par.c[c] IN
  /\ ParRunning(c) /\ st.pc = "resolve"
  /\ \E o \in Resolve(p, st.flatObject) :
       IF o.status = "panic"
       THEN /\ \E recovered \in BOOLEAN :
                 par' = [par EXCEPT !.crashed = ~recovered, !.c[c].pc = "panic"]
            /\ UNCHANGED <<p, db, procVars>>
       ELSE ParPoReturn(c, st, o.po)

\* the entry point after processObject
ParBody(c) ==
  LET st == par.c[c] IN
  /\ ParRunning(c) /\ st.pc = "return"
  /\ IF st.fn = "ProcessFact"
     THEN ParStep(c, par.heap, [st EXCEPT !.pc = "done", !.ret = [po |-> st.po, out |-> NoRet]])
     ELSE IF st.po.err # NoErr
     THEN ParStep(c, par.heap,
                  [st EXCEPT !.pc = "done",
                             !.ret = [po |-> NoPo,
                                      out |-> ReturnError(st.files, << >>, st.po.err)]])
     ELSE IF ~Exists(st.po.table) THEN ParStep(c, par.heap, [st EXCEPT !.pc = "range"])
     ELSE ParStep(c, par.heap,
                  [st EXCEPT !.pc = "range",
                             !.files = StoreObject(@, "", st.po.table, st.po.object)])

\* both callers have their results (or have recovered the panic)
ParReturn ==
  /\ par.on /\ ~par.crashed /\ \A c \in Calls : par.c[c].pc \in {"done", "panic"}
  /\ par' = NoPar
  /\ UNCHANGED <<p, db, procVars>>

NextPar ==
  \/ ParStart
  \/ \E c \in Calls : ParRange(c)
  \/ \E c \in Calls : ParCopy(c)
  \/ \E c \in Calls : ParEnrich(c)
  \/ \E c \in Calls : ParFlatten(c)
  \/ \E c \in Calls : ParResolve(c)
  \/ \E c \in Calls : ParBody(c)
  \/ ParReturn

SpecPar == Init /\ [][NextPar]_vars

(***************************************************************************)
(* Properties.                                                             *)
(***************************************************************************)
Lenient == call.fn = "ProcessFilePayload" /\ ~call.breakOnError
Strict == call.fn = "ProcessObjects" \/ (call.fn = "ProcessFilePayload" /\ call.breakOnError)

\* C1: in ProcessFilePayload with breakOnError=false a line whose processObject
\* call fails is recorded as exactly one FailedFact (Event: the line without
\* its terminator, Error: the error's message), adds no record and no schema
\* to any ProcessedFile, and the loop goes on to the next line; the call
\* fails only when a line does not parse, and otherwise returns a nil error
\* with the FailedFacts and the ProcessedFiles of the lines that succeeded.
C1_FailedLineRecorded ==
  /\ [][(pc = "return" /\ Lenient /\ po.err # NoErr) =>
          /\ Len(failedFacts') = Len(failedFacts) + 1
          /\ SubSeq(failedFacts', 1, Len(failedFacts)) = failedFacts
          /\ failedFacts'[Len(failedFacts')].Event \o <<Newline>> = reader.line
          /\ failedFacts'[Len(failedFacts')].Error = po.err
          /\ files' = files
          /\ pc' = "for"]_vars
  /\ [](pc = "done" /\ Lenient =>
          /\ ret.err # NoErr => ret.err.stage = "parse"
          /\ ret.err = NoErr =>
               /\ ~ret.nilFiles
               /\ ret.files = files
               /\ ret.failedFacts = failedFacts
               /\ Len(failedFacts) + Len(seen) = idx)

C1_Witness ==
  /\ pc = "done" /\ Lenient /\ ret.err = NoErr
  /\ Len(ret.failedFacts) = 1 /\ DOMAIN ret.files # {}
  /\ ret.failedFacts[1].Error.cause = "malformed timestamp"

\* the records of a payload: the texts between single line terminators, the
\* last one with or without a terminator after it
RecordCount(payload) ==
  Cardinality({i \in 1..Len(payload) : payload[i] = Newline})
  + (IF payload # << >> /\ payload[Len(payload)] # Newline THEN 1 ELSE 0)

\* C2: ProcessFilePayload passes every record of the payload to the parse
\* function and to processObject, the last one also when no line terminator
\* follows it: a call that returns without an error has taken all of them.
C2_EveryLineProcessed ==
  (pc = "done" /\ call.fn = "ProcessFilePayload" /\ ret.err = NoErr)
    => idx = RecordCount(reader.payload)

\* C3: ProcessObjects, and ProcessFilePayload with breakOnError=true, are
\* all-or-nothing: when processObject fails the call returns at once, with
\* that error, nil maps and nil FailedFacts, whatever was stored before.
C3_AllOrNothing ==
  (Strict /\ po.err # NoErr) =>
    /\ pc \in {"return", "done"}
    /\ pc = "done" => (ret.err = po.err /\ ret.nilFiles /\ ret.files = NoFiles
                       /\ ret.failedFacts = << >>)

C3_Witness ==
  pc = "done" /\ Strict /\ po.err # NoErr /\ ret.err = po.err /\ ret.nilFiles /\ seen # << >>

\* C4: whatever stage a call has reached, and however it ends, every record
\* the caller supplied still spells what it spelled when it was handed over.
C4_InputUnchanged ==
  \A i \in 1..Len(objects) : View(heap, InAddr(i)) = LitOf(objects[i])

C4_Witness ==
  /\ pc = "done" /\ call.fn = "ProcessObjects" /\ ret.err = NoErr
  /\ p.enrichmentRules # << >> /\ Len(seen) = 2
  /\ LitOf(objects[1]).hasCtx

\* the ProcessedFiles being gathered, and those a call has returned
AllFiles == {files[n] : n \in DOMAIN files} \cup {ret.files[n] : n \in DOMAIN ret.files}

\* C5: in every ProcessedFile, as gathered and as returned, every field name
\* of every record of the payload is a column name of its Table, after the
\* first record of a table is stored and after every merge.
C5_PayloadFieldsAreColumns ==
  \A f \in AllFiles : \A i \in 1..Len(f.payload) :
    DOMAIN f.payload[i] \subseteq DOMAIN f.DataSchema.Columns

C5_Witness ==
  \E n \in DOMAIN ret.files :
    /\ Len(ret.files[n].payload) = 2
    /\ ~(DOMAIN ret.files[n].payload[2] \subseteq DOMAIN ret.files[n].payload[1])

\* the column names of the objects stored so far under table name n
SeenColumns(n) == UNION {seen[i].cols : i \in {j \in 1..Len(seen) : seen[j].name = n}}

\* C6: the column names of an accumulated Table are the union of the column
\* names of the records stored under its name, and those of one record depend
\* on the record alone (so the set does not depend on the order of the
\* records, and a field some records lack is one column); no column name is
\* lost when a further record is folded in.
C6_ColumnsAreUnion ==
  /\ [](/\ DOMAIN files = {seen[i].name : i \in 1..Len(seen)}
        /\ \A n \in DOMAIN files : DOMAIN files[n].DataSchema.Columns = SeenColumns(n)
        /\ \A i \in 1..Len(seen) : seen[i].cols = DOMAIN seen[i].object
        /\ \A i, j \in 1..Len(seen) : seen[i].src = seen[j].src =>
              (seen[i].name = seen[j].name /\ seen[i].cols = seen[j].cols))
  /\ [][\A n \in DOMAIN files : n \in DOMAIN files' =>
          DOMAIN files[n].DataSchema.Columns \subseteq DOMAIN files'[n].DataSchema.Columns]_vars

C6_Witness ==
  \E n \in DOMAIN ret.files :
    /\ Len(seen) = 2 /\ seen[1].name = n /\ seen[2].name = n
    /\ ~(seen[1].cols \subseteq seen[2].cols)
    /\ DOMAIN ret.files[n].DataSchema.Columns = seen[1].cols \cup seen[2].cols

\* C7: when processObject succeeds, each field's column type and value are:
\* the mapping-level type and the reformatted value converted to it when the
\* field has a mapping-level cast; else the default type and the value
\* converted to it when the field has a default type; else the type inferred
\* from the reformatted value, and that value.
C7_TypePrecedence ==
  [][(pc = "typing" /\ pc' = "return" /\ po'.err = NoErr) =>
       /\ DOMAIN po'.object = DOMAIN flatObject
       /\ DOMAIN po'.table.Columns = DOMAIN flatObject
       /\ \A k \in DOMAIN flatObject :
            LET v == ReformatValue(flatObject[k])
                t == GetType(po'.table.Columns[k])
            IN IF k \in DOMAIN p.typeCasts
               THEN t = p.typeCasts[k] /\ Convert(p.typeCasts[k], v).ok
                    /\ po'.object[k] = Convert(p.typeCasts[k], v).v
               ELSE IF k \in DOMAIN DefaultTypes
               THEN t = DefaultTypes[k] /\ Convert(DefaultTypes[k], v).ok
                    /\ po'.object[k] = Convert(DefaultTypes[k], v).v
               ELSE TypeFromValue(v).ok /\ t = TypeFromValue(v).t /\ po'.object[k] = v]_vars

C7_Witness ==
  /\ pc = "return" /\ po.err = NoErr
  /\ \E k \in DOMAIN po.object :
       /\ k \in DOMAIN p.typeCasts /\ k \in DOMAIN DefaultTypes
       /\ p.typeCasts[k] # DefaultTypes[k]
       /\ GetType(po.table.Columns[k]) = p.typeCasts[k]

GoodTableName(name) ==
  /\ name # << >>
  /\ \A i \in 1..Len(name) : name[i] \notin UpperChars /\ name[i] # " "
  /\ ~Contains(name, NoValue)

\* C8: the name of every Table processObject returns, and every key of the
\* maps gathered and returned, is non-empty, lower case, without a space and
\* without the text <no value>; a template rendered to the empty string
\* makes the object fail.
C8_TableNames ==
  /\ [](/\ ~po.table.nil => GoodTableName(po.table.Name)
        /\ \A n \in DOMAIN files \cup DOMAIN ret.files : GoodTableName(n)
        /\ \A f \in AllFiles : GoodTableName(f.DataSchema.Name))
  /\ [][(pc = "extracted" /\ extracted.status = "ok" /\ extracted.name = << >>) =>
          (pc' = "return" /\ po'.err # NoErr /\ po'.table.nil)]_vars

C8_Witness ==
  /\ pc = "done" /\ ret.err = NoErr
  /\ \E n \in DOMAIN ret.files : Contains(n, NullText) /\ Contains(n, <<"_">>)

\* C9: whenever the table-name extraction function returns, with a name or
\* with any of its errors, the timestamp field of the record holds the value
\* it held before the call.
C9_TimestampRestored ==
  [][(pc = "tablename" /\ pc' = "extracted" /\ TimestampKey \in DOMAIN flatObject) =>
       (TimestampKey \in DOMAIN flatObject'
        /\ flatObject'[TimestampKey] = flatObject[TimestampKey])]_vars

\* the fields of object o that dbSchema cannot take
DbBadFields(dbSchema, o) ==
  {k \in DOMAIN o : k \notin DOMAIN dbSchema.Columns
                    \/ ~Convert(GetType(ColumnOf(dbSchema.Columns, k)), o[k]).ok}

\* C10: ApplyDBTypingToObject returns an error naming the field whenever the
\* record has a field that is no column of the destination Table or that
\* does not convert, and returns nil only with every field converted to the
\* type of its destination column.
C10_DbTypingErrors ==
  (db.pc = "done" /\ db.fn = "ApplyDBTypingToObject") =>
    LET before == db.before[1]
        after == db.payload[1]
    IN /\ DbBadFields(db.dbSchema, before) # {} =>
            (db.err # NoErr /\ db.err.field \in DbBadFields(db.dbSchema, before))
       /\ db.err = NoErr =>
            /\ DOMAIN after \subseteq DOMAIN db.dbSchema.Columns
            /\ \A k \in DOMAIN after :
                 /\ after[k] = Convert(GetType(db.dbSchema.Columns[k]), before[k]).v
                 /\ TypeFromValue(after[k]).t = GetType(db.dbSchema.Columns[k])

C10_Witness ==
  /\ db.pc = "done" /\ db.fn = "ApplyDBTypingToObject" /\ db.err # NoErr
  /\ db.err.field \notin DOMAIN db.dbSchema.Columns

\* original statement of C11: a call of ApplyDBTyping that returns an error
\* has left every buffered record as it was before the call.
C11_NothingChangedOnError ==
  (db.pc = "done" /\ db.fn = "ApplyDBTyping" /\ db.err # NoErr) => db.payload = db.before

\* o is o0 with the fields in done converted to the types of dbSchema
DbCoerced(dbSchema, o0, o, done) ==
  /\ DOMAIN o = DOMAIN o0
  /\ \A k \in DOMAIN o :
       o[k] = IF k \in done THEN Convert(GetType(ColumnOf(dbSchema.Columns, k)), o0[k]).v
              ELSE o0[k]

\* C11 (amended): ApplyDBTyping converts in place and stops at the first field
\* that fails.  When it returns nil every field of every buffered record holds
\* its value converted to the destination column's type.  When it returns an
\* error, the records before the failing one are fully converted, the failing
\* record has the fields visited before the failing field converted and the
\* others (the failing field among them) as before, and the records after it
\* are as before the call.
C11_ConvertedUpToFailure ==
  (db.pc = "done" /\ db.fn = "ApplyDBTyping") =>
    IF db.err = NoErr
    THEN \A i \in 1..Len(db.payload) :
           DbCoerced(db.dbSchema, db.before[i], db.payload[i], DOMAIN db.before[i])
    ELSE /\ db.i \in 1..Len(db.payload)
         /\ Len(db.payload) = Len(db.before)
         /\ \A i \in 1..(db.i - 1) :
              DbCoerced(db.dbSchema, db.before[i], db.payload[i], DOMAIN db.before[i])
         /\ db.err.field \in db.todo
         /\ DbCoerced(db.dbSchema, db.before[db.i], db.payload[db.i],
                      DOMAIN db.before[db.i] \ db.todo)
         /\ \A i \in (db.i + 1)..Len(db.payload) : db.payload[i] = db.before[i]

C11_Witness ==
  /\ db.pc = "done" /\ db.fn = "ApplyDBTyping" /\ db.err # NoErr
  /\ db.i = 2 /\ db.payload[1] # db.before[1] /\ db.payload[2] # db.before[2]

\* the record processObject was given has no field, no rule adds one and the
\* Mapper takes it
NoFlattenedFields ==
  /\ object # "" /\ View(heap, object) = Lit(EmptyMap, FALSE, EmptyMap)
  /\ p.enrichmentRules = << >> /\ MapperMap(p.fieldMapper, object).ok

\* C13: when processObject has returned for a record without any field,
\* ProcessObjects and ProcessFilePayload skip the record: the call does not
\* end with an error, no FailedFact and no ProcessedFile entry is added, and
\* the loop goes on with the next record.
C13_EmptyRecordSkipped ==
  [][(pc = "return" /\ call.fn \in {"ProcessObjects", "ProcessFilePayload"}
        /\ NoFlattenedFields) =>
       (pc' \in {"range", "for"} /\ files' = files /\ failedFacts' = failedFacts)]_vars

\* processObject ends here with an error of the given stage: nothing of it
\* runs after this step
EndsWithError(stage) ==
  /\ pc' = "return" /\ po'.err # NoErr /\ po'.err.stage = stage /\ po'.table.nil
  /\ ruleIdx' = 0 /\ objectCopy' = "" /\ heap' = Free(heap, "cp")

\* C15: processObject goes through copy, the enrichment rules one by one in
\* configured order, mapping, flattening, table-name extraction and type
\* resolution, in this order; a stage or rule that fails ends the call with an
\* error (naming the rule), and after the call has returned no stage runs
\* until the entry point hands over its next object.
C15_StageOrder ==
  [][/\ pc' = "copy" => (pc \in {"idle", "range", "for"} /\ idx' = idx + 1)
     /\ pc = "copy" => (pc' = "enrich" /\ ruleIdx' = 1)
     /\ (pc = "enrich" /\ ruleIdx <= Len(p.enrichmentRules)) =>
          LET rule == p.enrichmentRules[ruleIdx] IN
          IF RuleExecute(rule, heap, objectCopy).ok
          THEN /\ pc' = "enrich" /\ ruleIdx' = ruleIdx + 1
               /\ heap' = RuleExecute(rule, heap, objectCopy).h
          ELSE EndsWithError("enrichment rule") /\ po'.err.field = rule
     /\ (pc = "enrich" /\ ruleIdx > Len(p.enrichmentRules)) =>
          IF MapperMap(p.fieldMapper, objectCopy).ok
          THEN pc' = "flatten" /\ heap' = heap
          ELSE EndsWithError("mapping")
     /\ pc = "flatten" =>
          IF FlattenObject(heap, mappedObject).ok
          THEN pc' = "tablename" /\ flatObject' = FlattenObject(heap, mappedObject).m
          ELSE EndsWithError("flatten")
     /\ pc = "tablename" => pc' \in {"extracted", "panic"}
     /\ pc = "extracted" =>
          \/ pc' = "typing" /\ extracted.status = "ok" /\ extracted.name # << >>
          \/ EndsWithError("table name") /\ extracted.status = "err"
          \/ EndsWithError("unknown table name") /\ extracted.name = << >>
     /\ pc = "typing" =>
          (pc' = "return" /\ (po'.err # NoErr => po'.err.stage \in {"type", "default", "cast"}))
     /\ pc = "return" => pc' \in {"range", "for", "done"}]_vars

C15_Witness ==
  /\ pc = "return" /\ po.err.stage = "enrichment rule" /\ po.err.field = "lookup"
  /\ Len(p.enrichmentRules) = 3 /\ p.enrichmentRules[2] = "lookup"

\* C16: the default type registry is not applied to a field that has a
\* mapping-level cast: such a field makes the object fail only through the
\* conversion to the mapping-level type, never through a default conversion.
C16_DefaultSkippedUnderCast ==
  (pc = "return" /\ po.err.stage = "default") => po.err.field \notin DOMAIN p.typeCasts

\* the timestamp field of the flattened record is absent, no string, or a
\* string that does not match the layout
BadTimestamp(o) ==
  \/ TimestampKey \notin DOMAIN o
  \/ o[TimestampKey].k # "string"
  \/ ~ParseTime(o[TimestampKey].s).ok

\* C17: for a record with such a timestamp field the table-name extraction
\* returns an error, it never crashes, and processObject returns an error
\* for the object.
C17_ExtractionReturnsError ==
  [][/\ (pc = "tablename" /\ BadTimestamp(flatObject)) =>
          (pc' = "extracted" /\ extracted'.status = "err")
     /\ (pc = "extracted" /\ extracted.status = "err") =>
          (pc' = "return" /\ po'.err # NoErr)]_vars

\* C18: in ProcessFilePayload a line the parse function rejects ends the call
\* at that line, for either value of breakOnError, with the parse error, nil
\* maps and nil FailedFacts; no FailedFact is ever made of a parse failure,
\* and no further line is read.
C18_ParseFailureAborts ==
  /\ [][(pc = "for" /\ reader.readErr = "" /\ ~parseFunc(reader.line).ok) =>
          /\ pc' = "done"
          /\ ret'.err # NoErr /\ ret'.err.stage = "parse"
          /\ ret'.nilFiles /\ ret'.files = NoFiles /\ ret'.failedFacts = << >>
          /\ failedFacts' = failedFacts /\ files' = files
          /\ reader' = reader /\ idx' = idx]_vars
  /\ [][pc = "done" => (reader' = NoReader /\ pc' = "idle")]_vars
  /\ [](\A i \in 1..Len(failedFacts) : failedFacts[i].Error.stage # "parse")

C18_Witness ==
  /\ pc = "done" /\ Lenient /\ ret.err.stage = "parse" /\ ret.nilFiles
  /\ failedFacts # << >>

\* C19: every Table a successful processObject returns has at least one
\* column: the flattened record holds the timestamp field, every field of it
\* is a column, the column names are the field names of the returned record,
\* and Table.Exists() is true.
C19_SuccessHasColumns ==
  (pc = "return" /\ po.err = NoErr) =>
    /\ ~po.table.nil
    /\ TimestampKey \in DOMAIN po.table.Columns
    /\ DOMAIN po.table.Columns = DOMAIN po.object
    /\ \A k \in DOMAIN po.table.Columns : po.table.Columns[k] # {}
    /\ Exists(po.table)

C19_Witness ==
  /\ pc = "return" /\ po.err = NoErr
  /\ DOMAIN po.table.Columns = {TimestampKey} /\ DOMAIN po.object = {TimestampKey}

\* the entries of seen stored under table name n, in the order stored
StoredUnder(n) == SelectSeq(seen, LAMBDA e : e.name = n)

\* C20: for every table name of the result the payload of its ProcessedFile
\* is the sequence of the objects stored under that name, in input order;
\* each stored object is the flat record processObject returns for its
\* input, under the table name extracted for that input; every input that
\* was processed with success is stored once, and the map returned is the
\* one gathered.
C20_PayloadInInputOrder ==
  /\ DOMAIN files = {seen[i].name : i \in 1..Len(seen)}
  /\ \A n \in DOMAIN files :
       /\ Len(files[n].payload) = Len(StoredUnder(n))
       /\ \A i \in 1..Len(files[n].payload) : files[n].payload[i] = StoredUnder(n)[i].object
  /\ \A i, j \in 1..Len(seen) : i < j => seen[i].n < seen[j].n
  /\ \A i \in 1..Len(seen) :
       \E o \in processObjectAlone(p, seen[i].src) :
         /\ o.status = "ok" /\ o.po.table.Name = seen[i].name
         /\ o.po.object = seen[i].object
  /\ (pc \in {"range", "for"} /\ call.fn = "ProcessObjects") => Len(seen) = idx
  /\ (pc \in {"range", "for"} /\ call.fn = "ProcessFilePayload") =>
        Len(seen) + Len(failedFacts) = idx
  /\ (pc = "done" /\ ret.err = NoErr /\ call.fn # "ProcessFact") => ret.files = files

C20_Witness ==
  /\ pc = "done" /\ ret.err = NoErr
  /\ \E n \in DOMAIN ret.files :
       /\ Len(ret.files[n].payload) = 2
       /\ ret.files[n].payload[1] # ret.files[n].payload[2]
       /\ seen[1].src # seen[2].src

\* the literals of the records in the batch of call state st
BatchLits(st) == [j \in 1..Len(st.batch) |-> ParLitAt(st.batch[j])]

\* what the call of st returns when it runs by itself
AloneReturns(st) ==
  IF st.fn = "ProcessFact"
  THEN {[po |-> o.po, out |-> NoRet] :
          o \in {x \in processObjectAlone(p, BatchLits(st)[1]) : x.status # "panic"}}
  ELSE {[po |-> NoPo, out |-> r] : r \in ProcessObjectsAlone(p, BatchLits(st), 1, NoFiles)}

\* the maps call c allocated
OwnAddrs(c) == IF c = 1 THEN {"cp1", "cp1c"} ELSE {"cp2", "cp2c"}

C12_KeySetUnchanged ==
  /\ Len(db.payload) = Len(db.before)
  /\ \A i \in 1..Len(db.payload) : DOMAIN db.payload[i] = DOMAIN db.before[i]

C12_Witness ==
  /\ db.pc = "done" /\ db.fn = "ApplyDBTypingToObject" /\ db.err # NoErr
  /\ db.payload[1] # db.before[1]
  /\ DOMAIN db.payload[1] = DOMAIN db.before[1]

====
